---------------------------- MODULE Spec2Model ----------------------------
(***************************************************************************)
(* A model of the web service scaffold in backend/app:                     *)
(*   config.py          the Settings class and the module-level singleton  *)
(*   main.py            the FastAPI application, its lifespan, the CORS    *)
(*                      middleware and the health router under /api        *)
(*   routers/health.py  the health_check endpoint                          *)
(*   tests/test_health.py  the test that drives the app through httpx's    *)
(*                      ASGITransport                                      *)
(* The classes the source instantiates (pydantic-settings' BaseSettings,   *)
(* FastAPI, Starlette's CORSMiddleware and Router) are modelled as they    *)
(* behave under the arguments the source gives them.                       *)
(***************************************************************************)
EXTENDS Integers, Sequences, FiniteSets

VARIABLES
    driver,     \* who runs the app: "uvicorn" (main.py:5) or "ASGITransport" (the test)
    kwargs,     \* the keyword arguments given to Settings(...)
    env,        \* the process environment: variable name -> value or Unset
    dotenv,     \* the .env file: key -> value or Unset
    pc,         \* the position of the process
    settings,   \* app.config.settings
    app,        \* app.main.app
    open,       \* requests accepted and not yet handled
    last,       \* the most recent request handled, with its response
    startups,   \* how often the code before `yield` in lifespan ran
    shutdowns   \* how often the code after `yield` in lifespan ran

vars == <<driver, kwargs, env, dotenv, pc, settings, app, open, last,
          startups, shutdowns>>

(***************************************************************************)
(* Values.  A value given to a settings field is a tagged record, so that  *)
(* values of different Python types can be compared.                       *)
(***************************************************************************)
Unset == "<unset>"

Absent == [kind |-> "absent", s |-> "", b |-> FALSE, items |-> <<>>]
Str(x) == [kind |-> "str", s |-> x, b |-> FALSE, items |-> <<>>]
Bool(x) == [kind |-> "bool", s |-> "", b |-> x, items |-> <<>>]
List(xs) == [kind |-> "list", s |-> "", b |-> FALSE, items |-> xs]
IntVal == [kind |-> "int", s |-> "", b |-> FALSE, items |-> <<>>]
Invalid == [kind |-> "invalid", s |-> "", b |-> FALSE, items |-> <<>>]

SeqToSet(xs) == {xs[i] : i \in 1..Len(xs)}

(***************************************************************************)
(* config.py: class Settings(BaseSettings)                                 *)
(***************************************************************************)
Fields == {"app_name", "debug", "cors_origins"}

\* The defaults of the three fields (config.py:46-48).
DefaultAppName == "My App"
DefaultDebug == FALSE
DefaultCorsOrigins == <<"http://localhost:5173">>

\* The names under which the environment and the .env file can hold a field.
EnvNames == {"APP_NAME", "app_name", "DEBUG", "debug", "CORS_ORIGINS", "cors_origins"}
DotEnvNames == {"APP_NAME", "DEBUG", "CORS_ORIGINS"}

\* str.lower(), on the names and the boolean literals of the model.
Lower(x) ==
    CASE x = "APP_NAME" -> "app_name"
      [] x = "DEBUG" -> "debug"
      [] x = "CORS_ORIGINS" -> "cors_origins"
      [] x = "TRUE" -> "true"
      [] x = "True" -> "true"
      [] x = "False" -> "false"
      [] OTHER -> x

\* json.loads, on the raw values of the model: a JSON array of strings, a
\* JSON number, and text that is no JSON.
DecodeJson(raw) ==
    CASE raw = "[\"http://third.test\",\"http://other.test\"]"
            -> List(<<"http://third.test", "http://other.test">>)
      [] raw = "[\"http://other.test\"]" -> List(<<"http://other.test">>)
      [] raw = "[\"*\"]" -> List(<<"*">>)
      [] raw = "5" -> IntVal
      [] OTHER -> Invalid

\* Whether a field's annotation is a complex type: list[str] is, str and bool
\* are not.  A source decodes the raw value of a complex field as JSON.
FieldIsComplex(f) == f = "cors_origins"

\* One env-like source prepares the raw value it found for field f.
PrepareFieldValue(f, raw) ==
    IF raw = Unset THEN Absent
    ELSE IF FieldIsComplex(f) THEN DecodeJson(raw)
    ELSE Str(raw)

\* The values the environment holds for field f: names are matched without
\* regard to case.  Two variables that differ only in case both match.
EnvCandidates(e, f) == {e[n] : n \in {m \in DOMAIN e : Lower(m) = f /\ e[m] # Unset}}

\* The environment as the env source sees it: one value per field.  With two
\* matching variables the one later in os.environ wins, and that order is the
\* operating system's.
EnvPick(e, f) == IF EnvCandidates(e, f) = {} THEN {Unset} ELSE EnvCandidates(e, f)
EnvViews(e) ==
    {[f \in Fields |-> CASE f = "app_name" -> a [] f = "debug" -> d [] OTHER -> c] :
        a \in EnvPick(e, "app_name"), d \in EnvPick(e, "debug"),
        c \in EnvPick(e, "cors_origins")}

\* What a source contributes: the prepared value of every field it holds.
SourceState(view) == [f \in Fields |-> PrepareFieldValue(f, view[f])]

\* A source fails as a whole when a complex field's value is no JSON.
SourceFails(view) == \E f \in Fields : SourceState(view)[f].kind = "invalid"

\* A variant that consults the .env file before the environment.
SettingsSourcesFileFirst(kw, envView, fileView) ==
    <<kw, SourceState(fileView), SourceState(envView)>>

\* The sources in the order BaseSettings consults them: the constructor's
\* arguments, the environment, the .env file.
SettingsSources(kw, envView, fileView) ==
    <<kw, SourceState(envView), SourceState(fileView)>>

\* deep_update over the sources: a field takes the value of the first source
\* that holds it.
RECURSIVE FirstPresent(_, _, _)
FirstPresent(sources, f, i) ==
    IF i > Len(sources) THEN Absent
    ELSE IF sources[i][f].kind # "absent" THEN sources[i][f]
    ELSE FirstPresent(sources, f, i + 1)

Merged(kw, envView, fileView) ==
    [f \in Fields |-> FirstPresent(SettingsSources(kw, envView, fileView), f, 1)]

\* pydantic's validation of a bool field given a string.
BoolTrue == {"1", "true", "t", "yes", "y", "on"}
BoolFalse == {"0", "false", "f", "no", "n", "off"}

\* A variant without validation: every value passes.
CoercibleAnything(f, v) == TRUE

\* Whether value v can be coerced to the declared type of field f.
Coercible(f, v) ==
    CASE v.kind = "absent" -> TRUE
      [] f = "app_name" -> v.kind = "str"
      [] f = "debug" -> \/ v.kind = "bool"
                        \/ v.kind = "str" /\ Lower(v.s) \in BoolTrue \cup BoolFalse
      [] f = "cors_origins" -> v.kind = "list"

ValidateAppName(v) == IF v.kind = "absent" THEN DefaultAppName ELSE v.s
ValidateDebug(v) ==
    CASE v.kind = "absent" -> DefaultDebug
      [] v.kind = "bool" -> v.b
      [] OTHER -> Lower(v.s) \in BoolTrue
ValidateCorsOrigins(v) == IF v.kind = "absent" THEN DefaultCorsOrigins ELSE v.items

NoSettings == [ok |-> FALSE, app_name |-> "", debug |-> FALSE, cors_origins |-> <<>>]

\* Settings(**kw): the object, or NoSettings when construction raises.
NewSettings(kw, envView, fileView) ==
    LET m == Merged(kw, envView, fileView) IN
    IF SourceFails(envView) \/ SourceFails(fileView) THEN NoSettings
    ELSE IF \E f \in Fields : ~Coercible(f, m[f]) THEN NoSettings
    ELSE [ok |-> TRUE,
          app_name |-> ValidateAppName(m["app_name"]),
          debug |-> ValidateDebug(m["debug"]),
          cors_origins |-> ValidateCorsOrigins(m["cors_origins"])]

\* The .env file as the dotenv source sees it.
DotEnvView(d) ==
    [f \in Fields |->
        IF \E n \in DOMAIN d : Lower(n) = f /\ d[n] # Unset
        THEN d[CHOOSE n \in DOMAIN d : Lower(n) = f /\ d[n] # Unset]
        ELSE Unset]


(***************************************************************************)
(* HTTP requests and responses.  A path is the sequence of its segments:   *)
(* "/api/health" is <<"api", "health">>, and a trailing slash is an empty  *)
(* last segment, so "/api/health/" is <<"api", "health", "">>.             *)
(***************************************************************************)
NoHeader == "<none>"

Methods == {"GET", "HEAD", "POST", "OPTIONS"}
Paths == {<<"api", "health">>, <<"api", "health", "">>, <<"health">>, <<"docs">>}
Origins == {NoHeader, "http://localhost:5173", "http://other.test"}
RequestMethods == {NoHeader, "GET", "TRACE"}
RequestHeaders == {NoHeader, "x-token"}

\* A request: its method and path, and the headers the middleware reads.  It
\* reads Access-Control-Request-Method only from an OPTIONS request with an
\* Origin, Access-Control-Request-Headers only from a preflight, and Cookie
\* only from a request with an Origin that is no preflight: the requests are
\* those that differ in what is read.
Requests ==
    {r \in [method : Methods, path : Paths, origin : Origins,
            acrm : RequestMethods, acrh : RequestHeaders, cookie : BOOLEAN] :
        /\ (r.acrm # NoHeader) => (r.method = "OPTIONS" /\ r.origin # NoHeader)
        /\ (r.acrh # NoHeader) => (r.acrm # NoHeader)
        /\ r.cookie => (r.origin # NoHeader /\ r.acrm = NoHeader)}

\* A response: status, body, and the headers of interest.  `called` names the
\* endpoint function that ran to produce it, "none" when none ran.
Response(status, body, called) ==
    [status |-> status, body |-> body, called |-> called, location |-> <<>>,
     acao |-> NoHeader, acac |-> NoHeader, acam |-> NoHeader, acah |-> NoHeader]

\* A JSON object is the sequence of its key-value pairs.
HealthBody == << <<"status", "ok">>, <<"version", "0.1.0">> >>
Detail(text) == << <<"detail", text>> >>
PlainText(text) == << <<"text/plain", text>> >>
Html(text) == << <<"text/html", text>> >>

(***************************************************************************)
(* routers/health.py                                                       *)
(***************************************************************************)
\* A variant of the endpoint that reports another version.
health_check_stale == << <<"status", "ok">>, <<"version", "0.0.1">> >>

\* async def health_check(): the dict it returns (health.py:53).
health_check == HealthBody

\* router = APIRouter() with the one route @router.get("/health").
router == << [path |-> <<"health">>, methods |-> {"GET"}, endpoint |-> "health_check"] >>

(***************************************************************************)
(* main.py: the application                                                *)
(***************************************************************************)
\* The routes FastAPI(...) itself registers when docs_url, redoc_url and
\* openapi_url are left at their defaults (main.py:23, main.py:65).
DocsRoutes ==
    << [path |-> <<"openapi.json">>, methods |-> {"GET", "HEAD"}, endpoint |-> "openapi"],
       [path |-> <<"docs">>, methods |-> {"GET", "HEAD"}, endpoint |-> "swagger_ui_html"],
       [path |-> <<"docs", "oauth2-redirect">>, methods |-> {"GET", "HEAD"},
        endpoint |-> "swagger_ui_redirect"],
       [path |-> <<"redoc">>, methods |-> {"GET", "HEAD"}, endpoint |-> "redoc_html"] >>

\* A variant that mounts the routes without the prefix.
include_router_no_prefix(routes, r, prefix) == routes \o r

\* app.include_router(r, prefix=...): every route of r, its path prefixed.
include_router(routes, r, prefix) ==
    routes \o [i \in 1..Len(r) |-> [r[i] EXCEPT !.path = prefix \o r[i].path]]

ApiPrefix == <<"api">>

NoApp == [title |-> "", allow_origins |-> <<>>, allow_credentials |-> FALSE,
          allow_methods |-> <<>>, allow_headers |-> <<>>, routes |-> <<>>]

\* A variant that leaves the title at FastAPI's default.
NewAppDefaultTitle(s) ==
    [title |-> "FastAPI",
     allow_origins |-> s.cors_origins,
     allow_credentials |-> TRUE,
     allow_methods |-> <<"*">>,
     allow_headers |-> <<"*">>,
     routes |-> include_router(DocsRoutes, router, ApiPrefix)]

\* The module body of main.py, lines 65-96: FastAPI(title=settings.app_name),
\* add_middleware(CORSMiddleware, ...) and include_router(health.router, "/api").
NewApp(s) ==
    [title |-> s.app_name,
     allow_origins |-> s.cors_origins,
     allow_credentials |-> TRUE,
     allow_methods |-> <<"*">>,
     allow_headers |-> <<"*">>,
     routes |-> include_router(DocsRoutes, router, ApiPrefix)]

(***************************************************************************)
(* The router the application dispatches with.                             *)
(***************************************************************************)
\* What an endpoint function answers.
CallEndpoint(name) ==
    IF name = "health_check" THEN Response(200, health_check, name)
    ELSE Response(200, Html(name), name)

FullMatches(routes, req) ==
    {i \in 1..Len(routes) : routes[i].path = req.path /\ req.method \in routes[i].methods}
PartialMatches(routes, req) ==
    {i \in 1..Len(routes) : routes[i].path = req.path /\ req.method \notin routes[i].methods}
Min(S) == CHOOSE i \in S : \A j \in S : i <= j

\* str.rstrip("/") on a path, and the path with a slash appended.
RECURSIVE RStripSlash(_)
RStripSlash(p) ==
    IF Len(p) > 0 /\ p[Len(p)] = "" THEN RStripSlash(SubSeq(p, 1, Len(p) - 1)) ELSE p
RedirectPath(p) == IF p[Len(p)] = "" THEN RStripSlash(p) ELSE p \o <<"">>

\* Router.app: the first full match answers; else the first route whose path
\* matches answers 405; else, with redirect_slashes, a route that matches the
\* path with its trailing slash toggled gives a redirect; else 404.
Route(routes, req) ==
    IF FullMatches(routes, req) # {}
    THEN CallEndpoint(routes[Min(FullMatches(routes, req))].endpoint)
    ELSE IF PartialMatches(routes, req) # {}
    THEN Response(405, Detail("Method Not Allowed"), "none")
    ELSE IF /\ req.path # <<"">>
            /\ \E i \in 1..Len(routes) : routes[i].path = RedirectPath(req.path)
    THEN [Response(307, <<>>, "none") EXCEPT !.location = RedirectPath(req.path)]
    ELSE Response(404, Detail("Not Found"), "none")

(***************************************************************************)
(* CORSMiddleware as main.py:79-85 configures it.                          *)
(***************************************************************************)
ALL_METHODS == {"DELETE", "GET", "HEAD", "OPTIONS", "PATCH", "POST", "PUT"}
AllMethodsHeader == "DELETE, GET, HEAD, OPTIONS, PATCH, POST, PUT"

allow_all_origins(a) == "*" \in SeqToSet(a.allow_origins)
allow_all_headers(a) == "*" \in SeqToSet(a.allow_headers)
allow_methods(a) ==
    IF "*" \in SeqToSet(a.allow_methods) THEN ALL_METHODS ELSE SeqToSet(a.allow_methods)

\* A variant that allows every origin.
is_allowed_origin_any(a, origin) == TRUE

is_allowed_origin(a, origin) ==
    allow_all_origins(a) \/ origin \in SeqToSet(a.allow_origins)

\* A preflight is an OPTIONS request with an Origin and an
\* Access-Control-Request-Method header.
IsPreflight(req) ==
    req.method = "OPTIONS" /\ req.origin # NoHeader /\ req.acrm # NoHeader

PreflightFailures(a, req) ==
    (IF is_allowed_origin(a, req.origin) THEN <<>> ELSE <<"origin">>)
    \o (IF req.acrm \in allow_methods(a) THEN <<>> ELSE <<"method">>)

FailureText(failures) ==
    CASE failures = <<"origin">> -> "Disallowed CORS origin"
      [] failures = <<"method">> -> "Disallowed CORS method"
      [] OTHER -> "Disallowed CORS origin, method"

\* preflight_response: answered by the middleware itself.
preflight_response(a, req) ==
    LET failures == PreflightFailures(a, req)
        base == IF failures = <<>> THEN Response(200, PlainText("OK"), "none")
                ELSE Response(400, PlainText(FailureText(failures)), "none")
    IN [base EXCEPT
          !.acao = IF is_allowed_origin(a, req.origin) THEN req.origin ELSE NoHeader,
          !.acac = IF a.allow_credentials THEN "true" ELSE NoHeader,
          !.acam = AllMethodsHeader,
          !.acah = IF allow_all_headers(a) THEN req.acrh ELSE NoHeader]

\* simple_response: the application's response with the simple headers added.
simple_response(a, req, resp) ==
    [resp EXCEPT
       !.acac = IF a.allow_credentials THEN "true" ELSE NoHeader,
       !.acao = IF allow_all_origins(a)
                THEN (IF req.cookie THEN req.origin ELSE "*")
                ELSE IF is_allowed_origin(a, req.origin) THEN req.origin
                ELSE NoHeader]

\* A variant that forwards preflights to the router like any other request.
CorsMiddlewareNoPreflight(a, req) ==
    IF req.origin = NoHeader THEN Route(a.routes, req)
    ELSE simple_response(a, req, Route(a.routes, req))

\* CORSMiddleware.__call__ around the router.
CorsMiddleware(a, req) ==
    IF req.origin = NoHeader THEN Route(a.routes, req)
    ELSE IF IsPreflight(req) THEN preflight_response(a, req)
    ELSE simple_response(a, req, Route(a.routes, req))

\* The application called with one request.
App(a, req) == CorsMiddleware(a, req)


(***************************************************************************)
(* The process.                                                            *)
(***************************************************************************)
\* The requests the server holds at once.
MaxInFlight == 2

NoKwargs == [f \in Fields |-> Absent]
NoLast == [seen |-> FALSE,
           req |-> [method |-> "GET", path |-> <<>>, origin |-> NoHeader,
                    acrm |-> NoHeader, acrh |-> NoHeader, cookie |-> FALSE],
           resp |-> Response(0, <<>>, "none")]

\* The configurations a Settings(...) call is tried on.
AllKwargs ==
    {k \in [Fields -> {Absent, Str("FromKw"), Bool(TRUE), Str("maybe"),
                       List(<<"http://kw.test">>)}] :
        /\ k["app_name"] \in {Absent, Str("FromKw")}
        /\ k["debug"] \in {Absent, Bool(TRUE), Str("maybe")}
        /\ k["cors_origins"] \in {Absent, List(<<"http://kw.test">>)}}

TwoOrigins == "[\"http://third.test\",\"http://other.test\"]"
AnyOrigin == "[\"*\"]"
NotJson == "http://other.test"

AllEnvs ==
    {e \in [EnvNames -> {Unset, "TestApp", "lower", "true", "maybe", "False", "0",
                         TwoOrigins, AnyOrigin, NotJson}] :
        /\ e["APP_NAME"] \in {Unset, "TestApp"}
        /\ e["app_name"] \in {Unset, "lower"}
        /\ e["DEBUG"] \in {Unset, "true", "maybe", "False"}
        /\ e["debug"] \in {Unset, "0"}
        /\ e["CORS_ORIGINS"] \in {Unset, TwoOrigins, NotJson}
        /\ e["cors_origins"] \in {Unset, AnyOrigin}}

AllDotEnvs ==
    {d \in [DotEnvNames -> {Unset, "FromFile", "maybe", "True",
                            "[\"http://other.test\"]", "5"}] :
        /\ d["APP_NAME"] \in {Unset, "FromFile"}
        /\ d["DEBUG"] \in {Unset, "maybe", "True"}
        /\ d["CORS_ORIGINS"] \in {Unset, "[\"http://other.test\"]", "5"}}

\* The configurations the process is started under.
RunEnvs ==
    {e \in [EnvNames -> {Unset, "TestApp", "true", "maybe", TwoOrigins, AnyOrigin, NotJson}] :
        /\ e["APP_NAME"] \in {Unset, "TestApp"}
        /\ e["DEBUG"] \in {Unset, "true", "maybe"}
        /\ e["CORS_ORIGINS"] \in {Unset, TwoOrigins, AnyOrigin, NotJson}
        /\ e["app_name"] = Unset /\ e["debug"] = Unset /\ e["cors_origins"] = Unset}

RunDotEnvs ==
    {d \in [DotEnvNames -> {Unset, "maybe"}] :
        /\ d["APP_NAME"] = Unset
        /\ d["DEBUG"] \in {Unset, "maybe"}
        /\ d["CORS_ORIGINS"] = Unset}

InitRest ==
    /\ pc = "start"
    /\ settings = NoSettings
    /\ app = NoApp
    /\ open = 0
    /\ last = NoLast
    /\ startups = 0
    /\ shutdowns = 0

\* The process as started: config.py:62 calls Settings() without arguments.
Init ==
    /\ driver \in {"uvicorn", "ASGITransport"}
    /\ kwargs = NoKwargs
    /\ env \in RunEnvs
    /\ dotenv \in RunDotEnvs
    /\ InitRest

\* settings = Settings() (config.py:62), run when main.py:33 imports config.
\* A failure raises out of the import: the process ends.
LoadSettings ==
    /\ pc = "start"
    /\ \E view \in EnvViews(env) :
          settings' = NewSettings(kwargs, view, DotEnvView(dotenv))
    /\ pc' = IF settings'.ok THEN "config_loaded" ELSE "aborted"
    /\ UNCHANGED <<driver, kwargs, env, dotenv, app, open, last, startups, shutdowns>>

\* The module body of main.py (lines 65-96).
Assemble ==
    /\ pc = "config_loaded"
    /\ app' = NewApp(settings)
    /\ pc' = "assembled"
    /\ UNCHANGED <<driver, kwargs, env, dotenv, settings, open, last, startups, shutdowns>>

\* uvicorn app.main:app (main.py:5) enters lifespan and runs it to its
\* `yield` before it opens the listener (main.py:55-57).
LifespanStartup ==
    /\ pc = "assembled"
    /\ driver = "uvicorn"
    /\ startups' = startups + 1
    /\ pc' = "serving"
    /\ UNCHANGED <<driver, kwargs, env, dotenv, settings, app, open, last, shutdowns>>

\* The test wraps the app in ASGITransport and opens an AsyncClient
\* (test_health.py:58-63): no lifespan message is sent to the app.
ClientOpen ==
    /\ pc = "assembled"
    /\ driver = "ASGITransport"
    /\ pc' = "serving"
    /\ UNCHANGED <<driver, kwargs, env, dotenv, settings, app, open, last,
                   startups, shutdowns>>

\* A request is accepted.
Accept ==
    /\ pc = "serving"
    /\ open < MaxInFlight
    /\ open' = open + 1
    /\ UNCHANGED <<driver, kwargs, env, dotenv, pc, settings, app, last,
                   startups, shutdowns>>

\* A variant in which handling a request switches settings.debug.
HandleRequestMutatesSettings ==
    /\ pc \in {"serving", "draining"}
    /\ open > 0
    /\ \E req \in Requests :
          last' = [seen |-> TRUE, req |-> req, resp |-> App(app, req)]
    /\ open' = open - 1
    /\ settings' = [settings EXCEPT !.debug = ~settings.debug]
    /\ UNCHANGED <<driver, kwargs, env, dotenv, pc, app, startups, shutdowns>>

\* The app is called with an accepted request and answers it.  No endpoint
\* and no middleware of the app suspends, so the call is one step.
HandleRequest ==
    /\ pc \in {"serving", "draining"}
    /\ open > 0
    /\ \E req \in Requests :
          last' = [seen |-> TRUE, req |-> req, resp |-> App(app, req)]
    /\ open' = open - 1
    /\ UNCHANGED <<driver, kwargs, env, dotenv, pc, settings, app, startups, shutdowns>>

\* The server is told to stop: it accepts no further request.
BeginShutdown ==
    /\ pc = "serving"
    /\ driver = "uvicorn"
    /\ pc' = "draining"
    /\ UNCHANGED <<driver, kwargs, env, dotenv, settings, app, open, last,
                   startups, shutdowns>>

\* A variant that resumes lifespan without waiting for the requests in flight.
LifespanShutdownEarly ==
    /\ pc = "draining"
    /\ driver = "uvicorn"
    /\ shutdowns' = shutdowns + 1
    /\ pc' = "stopped"
    /\ UNCHANGED <<driver, kwargs, env, dotenv, settings, app, open, last, startups>>

\* With no request left in flight uvicorn resumes lifespan after its `yield`
\* (main.py:58-59) and exits.
LifespanShutdown ==
    /\ pc = "draining"
    /\ driver = "uvicorn"
    /\ open = 0
    /\ shutdowns' = shutdowns + 1
    /\ pc' = "stopped"
    /\ UNCHANGED <<driver, kwargs, env, dotenv, settings, app, open, last, startups>>

\* The test leaves `async with AsyncClient(...)` after its request was
\* answered (test_health.py:63-66).
ClientClose ==
    /\ pc = "serving"
    /\ driver = "ASGITransport"
    /\ open = 0
    /\ pc' = "stopped"
    /\ UNCHANGED <<driver, kwargs, env, dotenv, settings, app, open, last,
                   startups, shutdowns>>

Next ==
    \/ LoadSettings
    \/ Assemble
    \/ LifespanStartup
    \/ ClientOpen
    \/ Accept
    \/ HandleRequest
    \/ BeginShutdown
    \/ LifespanShutdown
    \/ ClientClose

Spec == Init /\ [][Next]_vars

\* Settings(**kwargs) on its own, over every combination of sources.
InitSettings ==
    /\ driver = "uvicorn"
    /\ kwargs \in AllKwargs
    /\ env \in AllEnvs
    /\ dotenv \in AllDotEnvs
    /\ InitRest

NextSettings == LoadSettings

SettingsSpec == InitSettings /\ [][NextSettings]_vars


(***************************************************************************)
(* Properties.                                                             *)
(***************************************************************************)
HealthPath == <<"api", "health">>
Handled == last.seen
IsHealthGet == last.seen /\ last.req.method = "GET" /\ last.req.path = HealthPath

\* C1: a GET request to /api/health is answered with status 200 and the body
\* {"status": "ok", "version": "0.1.0"}, by the health_check endpoint,
\* whatever the settings, the requests handled before and the requests in
\* flight.
C1_HealthAlwaysOk ==
    IsHealthGet =>
        /\ last.resp.status = 200
        /\ last.resp.body = << <<"status", "ok">>, <<"version", "0.1.0">> >>
        /\ last.resp.called = "health_check"

\* A GET /api/health answered while another request is in flight, under DEBUG.
C1_Witness ==
    /\ IsHealthGet
    /\ open > 0
    /\ settings.debug
    /\ last.resp.status = 200

\* The value of a field of the constructed settings, and the value a source's
\* entry becomes once validated, both as tagged values.
FieldOf(s, f) ==
    CASE f = "app_name" -> Str(s.app_name)
      [] f = "debug" -> Bool(s.debug)
      [] OTHER -> List(s.cors_origins)
Validated(f, v) ==
    CASE f = "app_name" -> Str(v.s)
      [] f = "debug" -> Bool(IF v.kind = "bool" THEN v.b ELSE Lower(v.s) \in BoolTrue)
      [] OTHER -> List(v.items)
DefaultOf(f) ==
    CASE f = "app_name" -> Str("My App")
      [] f = "debug" -> Bool(FALSE)
      [] OTHER -> List(<<"http://localhost:5173">>)

\* The raw values the environment and the .env file provide for a field.
EnvProvided(f) == {env[n] : n \in {m \in EnvNames : Lower(m) = f /\ env[m] # Unset}}
FileProvided(f) == {dotenv[n] : n \in {m \in DotEnvNames : Lower(m) = f /\ dotenv[m] # Unset}}

\* C2: every field of a constructed Settings holds the value of the
\* highest-precedence source that provides it: the constructor argument, else
\* an environment variable whose name matches the field without regard to
\* case, else the .env file's value, else the default.
C2_Precedence ==
    pc = "config_loaded" =>
        \A f \in Fields :
            IF kwargs[f] # Absent THEN FieldOf(settings, f) = Validated(f, kwargs[f])
            ELSE IF EnvProvided(f) # {}
            THEN \E raw \in EnvProvided(f) :
                    FieldOf(settings, f) = Validated(f, PrepareFieldValue(f, raw))
            ELSE IF FileProvided(f) # {}
            THEN \E raw \in FileProvided(f) :
                    FieldOf(settings, f) = Validated(f, PrepareFieldValue(f, raw))
            ELSE FieldOf(settings, f) = DefaultOf(f)

\* Settings built where the three sources each decide one field: app_name is
\* given by all three, debug by the environment and the file, cors_origins by
\* the file alone.
C2_Witness ==
    /\ pc = "config_loaded"
    /\ kwargs["app_name"] # Absent /\ env["APP_NAME"] # Unset /\ dotenv["APP_NAME"] # Unset
    /\ kwargs["debug"] = Absent /\ env["DEBUG"] = "False" /\ env["debug"] = Unset
    /\ dotenv["DEBUG"] = "True"
    /\ kwargs["cors_origins"] = Absent /\ EnvProvided("cors_origins") = {}
    /\ dotenv["CORS_ORIGINS"] # Unset
    /\ settings.app_name = "FromKw" /\ ~settings.debug
    /\ settings.cors_origins = <<"http://other.test">>

\* Whether a raw value of the environment or the .env file cannot become a
\* value of the field's type.
Uncoercible(f, raw) ==
    CASE f = "app_name" -> FALSE
      [] f = "debug" -> Lower(raw) \notin {"1", "true", "t", "yes", "y", "on",
                                          "0", "false", "f", "no", "n", "off"}
      [] OTHER -> DecodeJson(raw).kind # "list"

NeverAssembled ==
    /\ pc \in {"start", "aborted"}
    /\ app = NoApp
    /\ open = 0
    /\ ~Handled

\* C3 as stated: with any uncoercible value in the environment or the .env
\* file, construction fails, the app is never assembled, no request served.
C3_AnyUncoercibleAborts ==
    (\E f \in Fields : \E raw \in EnvProvided(f) \cup FileProvided(f) : Uncoercible(f, raw))
        => NeverAssembled

\* The value the resolution order selects for a field cannot be coerced.
SelectedUncoercible(f) ==
    IF kwargs[f] # Absent THEN FALSE
    ELSE IF EnvProvided(f) # {} THEN \A raw \in EnvProvided(f) : Uncoercible(f, raw)
    ELSE \E raw \in FileProvided(f) : Uncoercible(f, raw)

\* C3, amended: when the value that the resolution order selects for some
\* field cannot be coerced to the field's type, construction fails at import,
\* the app is never assembled and no request is accepted or served.
C3_SelectedUncoercibleAborts ==
    (\E f \in Fields : SelectedUncoercible(f)) => NeverAssembled

\* The import has failed on DEBUG=maybe.
C3_Witness ==
    /\ pc = "aborted"
    /\ env["DEBUG"] = "maybe"
    /\ ~settings.ok

HasOrigin == last.seen /\ last.req.origin # NoHeader
OriginListed == last.req.origin \in SeqToSet(settings.cors_origins)

OriginPolicy ==
    /\ OriginListed => last.resp.acao = last.req.origin
    /\ ~OriginListed => last.resp.acao \notin {last.req.origin, "*"}

\* C4 as stated: a listed origin is echoed in Access-Control-Allow-Origin; an
\* origin that is not listed gets no Access-Control-Allow-Origin that grants it.
C4_OriginPolicy == HasOrigin => OriginPolicy

\* C4, amended: the same, for a cors_origins without the entry "*".
C4_OriginPolicyNoWildcard ==
    (HasOrigin /\ "*" \notin SeqToSet(settings.cors_origins)) => OriginPolicy

\* A request from the second origin of a two-entry list got its origin back.
C4_Witness ==
    /\ HasOrigin
    /\ Len(settings.cors_origins) = 2
    /\ settings.cors_origins[2] = last.req.origin
    /\ last.resp.acao = last.req.origin

LastIsPreflight ==
    /\ last.seen
    /\ last.req.method = "OPTIONS"
    /\ last.req.origin # NoHeader
    /\ last.req.acrm # NoHeader

\* C5 as stated: a preflight is answered 200 by the middleware and no
\* endpoint runs.
C5_PreflightOk ==
    LastIsPreflight => (last.resp.status = 200 /\ last.resp.called = "none")

OriginAllowed ==
    \/ last.req.origin \in SeqToSet(settings.cors_origins)
    \/ "*" \in SeqToSet(settings.cors_origins)

\* C5, amended: a preflight (OPTIONS with Origin and
\* Access-Control-Request-Method) to any path is answered by the middleware
\* and never reaches the router or an endpoint; the status is 200 when the
\* origin is allowed and the requested method is one of DELETE, GET, HEAD,
\* OPTIONS, PATCH, POST, PUT, and 400 otherwise.
C5_PreflightByMiddleware ==
    LastIsPreflight =>
        /\ last.resp.called = "none"
        /\ last.resp.acam # NoHeader
        /\ last.resp.status =
              IF /\ OriginAllowed
                 /\ last.req.acrm \in {"DELETE", "GET", "HEAD", "OPTIONS", "PATCH",
                                       "POST", "PUT"}
              THEN 200 ELSE 400

\* A preflight to /api/health from an allowed origin was answered 200.
C5_Witness ==
    /\ LastIsPreflight
    /\ last.req.path = HealthPath
    /\ last.resp.status = 200
    /\ last.resp.acao = last.req.origin

LifespanOnce ==
    /\ startups <= 1
    /\ shutdowns <= 1
    /\ (open > 0 \/ Handled \/ pc \in {"serving", "draining", "stopped"}) => startups = 1
    /\ shutdowns = 1 => (pc = "stopped" /\ open = 0)
    /\ pc = "stopped" => shutdowns = 1

\* C6 as stated: in every run the part of lifespan before `yield` has run
\* exactly once before a request is accepted, and the part after it runs once,
\* with no request in flight, when the run ends.
C6_LifespanOnce == LifespanOnce

\* C6, amended: under uvicorn the part of lifespan before `yield` runs exactly
\* once and before any request is accepted, the part after `yield` runs at
\* most once, only with no request in flight, and once the server has begun to
\* shut down no request is accepted and after the shutdown part none is
\* handled; under the test's ASGITransport neither part runs.
C6_LifespanOnceUnderServer ==
    /\ [](driver = "uvicorn" => LifespanOnce)
    /\ [](driver = "ASGITransport" => (startups = 0 /\ shutdowns = 0))
    /\ [][(pc = "draining" => open' <= open)
          /\ (shutdowns = 1 => (last' = last /\ open' = open))]_vars

\* uvicorn has stopped after it served a request: each part has run once.
C6_Witness ==
    /\ driver = "uvicorn"
    /\ pc = "stopped"
    /\ Handled
    /\ startups = 1
    /\ shutdowns = 1

\* C7: every response carries Access-Control-Allow-Origin with an allowed
\* origin, Access-Control-Allow-Credentials: true,
\* Access-Control-Allow-Methods: * and Access-Control-Allow-Headers: *.
C7_CorsHeadersOnEveryResponse ==
    Handled =>
        /\ last.resp.acao \in SeqToSet(settings.cors_origins)
        /\ last.resp.acac = "true"
        /\ last.resp.acam = "*"
        /\ last.resp.acah = "*"

\* The paths the application has a route for: the health route and the
\* documentation routes of FastAPI.
RegisteredPaths ==
    {<<"api", "health">>, <<"openapi.json">>, <<"docs">>, <<"docs", "oauth2-redirect">>,
     <<"redoc">>}
SlashToggled(p) == IF p[Len(p)] = "" THEN SubSeq(p, 1, Len(p) - 1) ELSE Append(p, "")

C9_SettingsReadOnly ==
    /\ [][pc # "start" => settings' = settings]_vars
    /\ [][pc \notin {"start", "config_loaded"} => app' = app]_vars
    /\ [](pc \notin {"start", "config_loaded", "aborted"} =>
            /\ app.title = settings.app_name
            /\ app.allow_origins = settings.cors_origins)

\* The process has served requests and stopped, settings as loaded.
C9_Witness ==
    /\ pc = "stopped"
    /\ Handled
    /\ settings.ok
    /\ settings.debug
    /\ app.allow_origins = settings.cors_origins

Assembled == pc \in {"assembled", "serving", "draining", "stopped"}

\* C10: the title of the assembled app is settings.app_name: "TestApp" under
\* APP_NAME=TestApp, "My App" without an override; it does not change after
\* assembly, and neither it nor the health response depends on DEBUG.
C10_TitleIsAppName ==
    /\ [](Assembled =>
            /\ app.title = settings.app_name
            /\ app.title = IF env["APP_NAME"] # Unset THEN env["APP_NAME"] ELSE "My App"
            /\ IsHealthGet => (last.resp.status = 200 /\ last.resp.body = HealthBody))
    /\ [][Assembled => app'.title = app.title]_vars

\* APP_NAME=TestApp and DEBUG=true: the title is "TestApp", the health check
\* answered as ever.
C10_Witness ==
    /\ Assembled
    /\ env["APP_NAME"] = "TestApp"
    /\ env["DEBUG"] = "true"
    /\ settings.debug
    /\ app.title = "TestApp"
    /\ IsHealthGet
    /\ last.resp.body = HealthBody

============================================================================
